---- MODULE Spec2Model ----
(***************************************************************************)
(* smartatransit/feedback: the handlers of package api (SaveFeedback and    *)
(* Health) and the table feedbacks they write and read.                    *)
(*                                                                         *)
(* The repository holds two revisions of package api:                      *)
(*   - src/api/api.go             (Kind type, upper-case kind table,       *)
(*                                 message required, no value / email)     *)
(*   - src/unnamed/part_002:61-296 (lower-case tables, value and email     *)
(*                                 validation, optional message)           *)
(* A running binary is built from one of them; the variable revision       *)
(* records which.                                                          *)
(*                                                                         *)
(* Text is modelled as a sequence of one-character strings, so that case   *)
(* conversion and the e-mail pattern are computed character by character.  *)
(***************************************************************************)
EXTENDS Integers, Sequences, FiniteSets, TLC

VARIABLES revision, inflight, done, store, now

vars == <<revision, inflight, done, store, now>>

(***************************************************************************)
(* Bounds of the model.                                                    *)
(***************************************************************************)
\* rows the store may hold before the client stops sending requests
MaxStore == 1
\* longest e-mail string enumerated by the pattern specification
MaxEmailLen == 6
\* requests the service specification handles at the same time
MaxInflight == 2
\* rows the table may hold before the service specification stops submitting
MaxRows == 2
\* the last hour the clock of the service specification reaches
MaxNow == 72

(***************************************************************************)
(* Characters and strings.                                                 *)
(***************************************************************************)
LowerLetters ==
  <<"a","b","c","d","e","f","g","h","i","j","k","l","m",
    "n","o","p","q","r","s","t","u","v","w","x","y","z">>

UpperLetters ==
  <<"A","B","C","D","E","F","G","H","I","J","K","L","M",
    "N","O","P","Q","R","S","T","U","V","W","X","Y","Z">>

Digits == <<"0","1","2","3","4","5","6","7","8","9">>

Range(f) == { f[i] : i \in DOMAIN f }

Letters == Range(LowerLetters) \cup Range(UpperLetters)

\* unicode.ToLower / unicode.ToUpper on the ASCII letters
LowerOf == [ c \in Range(UpperLetters) |->
               LowerLetters[CHOOSE i \in DOMAIN UpperLetters : UpperLetters[i] = c] ]

UpperOf == [ c \in Range(LowerLetters) |->
               UpperLetters[CHOOSE i \in DOMAIN LowerLetters : LowerLetters[i] = c] ]

ToLowerChar(c) == IF c \in DOMAIN LowerOf THEN LowerOf[c] ELSE c

ToUpperChar(c) == IF c \in DOMAIN UpperOf THEN UpperOf[c] ELSE c

\* strings.ToLower / strings.ToUpper on ASCII text
ToLower(s) == [ i \in DOMAIN s |-> ToLowerChar(s[i]) ]

ToUpper(s) == [ i \in DOMAIN s |-> ToUpperChar(s[i]) ]

(***************************************************************************)
(* Text literals used by the program and by the requests of the model.     *)
(***************************************************************************)
Empty == << >>

s_outage == <<"o","u","t","a","g","e">>
s_comment == <<"c","o","m","m","e","n","t">>
s_service_condition ==
  <<"s","e","r","v","i","c","e","_","c","o","n","d","i","t","i","o","n">>

s_positive == <<"p","o","s","i","t","i","v","e">>
s_negative == <<"n","e","g","a","t","i","v","e">>
s_neutral == <<"n","e","u","t","r","a","l">>

\* src/api/api.go:24-33
OutageKind == <<"O","U","T","A","G","E">>
CommentKind == <<"C","O","M","M","E","N","T">>
ServiceConditionKind ==
  <<"S","E","R","V","I","C","E","_","C","O","N","D","I","T","I","O","N">>

\* src/api/api.go:18-22
ValidKinds_api_go == { OutageKind, CommentKind, ServiceConditionKind }

\* src/unnamed/part_002:77-81
ValidKinds_part_002 == { s_outage, s_comment, s_service_condition }

\* src/unnamed/part_002:84-88
ValidValues == { s_positive, s_negative, s_neutral }

(***************************************************************************)
(* emailRegexp: ^[A-Za-z0-9._%+-]+@[A-Za-z0-9.-]+\.[A-Za-z]{2,}$           *)
(* The match is the language of the pattern: a non-empty run of local      *)
(* characters, "@", a non-empty run of domain characters, ".", and two or  *)
(* more letters up to the end of the text.                                 *)
(***************************************************************************)
LocalChars == Letters \cup Range(Digits) \cup {".", "_", "%", "+", "-"}

DomainChars == Letters \cup Range(Digits) \cup {".", "-"}

TldMinLen == 2

emailRegexpMatch(s) ==
  \E at \in 1..Len(s), dot \in 1..Len(s) :
     /\ s[at] = "@"
     /\ at > 1
     /\ \A k \in 1..(at - 1) : s[k] \in LocalChars
     /\ dot > at + 1
     /\ \A k \in (at + 1)..(dot - 1) : s[k] \in DomainChars
     /\ s[dot] = "."
     /\ Len(s) - dot >= TldMinLen
     /\ \A k \in (dot + 1)..Len(s) : s[k] \in Letters

(***************************************************************************)
(* HTTP requests.  A header is absent or carries a string; a JSON member   *)
(* of the body is absent, a string or a number.  The body is empty, cut    *)
(* short ("{"), or a JSON object with the members kind, value, message     *)
(* and email in that order.                                                *)
(***************************************************************************)
Absent == [t |-> "absent", s |-> Empty]
Str(s) == [t |-> "string", s |-> s]
Num == [t |-> "number", s |-> Empty]

\* http.Header.Get: "" when the header is not set
HeaderGet(h) == IF h.t = "absent" THEN Empty ELSE h.s

NoError == ""

\* the member of the decoded struct: the zero value "" unless a string was sent
Member(jv) == IF jv.t = "string" THEN jv.s ELSE Empty

TypeError(field, goType) ==
  [text |-> "json: cannot unmarshal number into Go struct field", field |-> field, type |-> goType]

SyntaxError(text) == [text |-> text, field |-> "", type |-> ""]

NoDecodeError == SyntaxError(NoError)

\* json.NewDecoder(r.Body).Decode(&req) into SaveFeedbackRequest{Kind, Value, Message, Email}
Decode_part_002(body) ==
  LET req == [Kind |-> Member(body.kind), Value |-> Member(body.value),
              Message |-> Member(body.message), Email |-> Member(body.email)]
  IN  IF body.form = "empty" THEN [err |-> SyntaxError("EOF"), req |-> req]
      ELSE IF body.form = "truncated" THEN [err |-> SyntaxError("unexpected EOF"), req |-> req]
      ELSE IF body.kind.t = "number"
        THEN [err |-> TypeError("SaveFeedbackRequest.kind", "string"), req |-> req]
      ELSE IF body.value.t = "number"
        THEN [err |-> TypeError("SaveFeedbackRequest.value", "string"), req |-> req]
      ELSE IF body.message.t = "number"
        THEN [err |-> TypeError("SaveFeedbackRequest.message", "string"), req |-> req]
      ELSE IF body.email.t = "number"
        THEN [err |-> TypeError("SaveFeedbackRequest.email", "string"), req |-> req]
      ELSE [err |-> NoDecodeError, req |-> req]

\* json.NewDecoder(r.Body).Decode(&reqObj) into SaveFeedbackRequest{Kind, Message}:
\* the members value and email are unknown to this struct and skipped
Decode_api_go(body) ==
  LET reqObj == [Kind |-> Member(body.kind), Message |-> Member(body.message)]
  IN  IF body.form = "empty" THEN [err |-> SyntaxError("EOF"), req |-> reqObj]
      ELSE IF body.form = "truncated" THEN [err |-> SyntaxError("unexpected EOF"), req |-> reqObj]
      ELSE IF body.kind.t = "number"
        THEN [err |-> TypeError("SaveFeedbackRequest.kind", "api.Kind"), req |-> reqObj]
      ELSE IF body.message.t = "number"
        THEN [err |-> TypeError("SaveFeedbackRequest.message", "string"), req |-> reqObj]
      ELSE [err |-> NoDecodeError, req |-> reqObj]

(***************************************************************************)
(* Responses.  A response is the status code and the JSON documents        *)
(* written to the body (none when the handler returns without writing:     *)
(* net/http then answers 200 with an empty body).                          *)
(***************************************************************************)
StatusOK == 200
StatusBadRequest == 400
StatusUnauthorized == 401
StatusMethodNotAllowed == 405
StatusInternalServerError == 500

\* fmt.Sprintf(format, a): the format and the text substituted for %s
Sprintf(format, a) == [fmt |-> format, arg |-> a, err |-> NoDecodeError]

\* fmt.Sprintf(format, err.Error()) for a decoding error
SprintfErr(format, e) == [fmt |-> format, arg |-> Empty, err |-> e]

Text(t) == Sprintf(t, Empty)

\* writeErrorResponse / writeJSONResponse: status code and errResp{Status, Message}
writeErrorResponse(status, errMsg) ==
  [code |-> status, body |-> << [status |-> status, message |-> errMsg] >>]

\* a handler that returns without writing
NoWrite == [code |-> StatusOK, body |-> << >>]

\* what a handler did: the response, the calls of c.db.SaveFeedback (the record
\* handed over and the error returned) and the lines written to the log
Result(resp, saves, logs) ==
  [resp |-> resp, saves |-> saves, logs |-> logs, calls |-> << >>]

Mut_Rejected(resp) ==
  Result(resp, << [fb |-> [Kind |-> << >>], err |-> "insert failed"] >>, << >>)

\* a handler that answers without calling the collaborator
Rejected(resp) == Result(resp, << >>, << >>)

\* *string: nil or a pointer to a string
Nil == << >>
Ptr(s) == << s >>

(***************************************************************************)
(* The persistence collaborator, db.Client.SaveFeedback: the driver's      *)
(* error is wrapped, nil stays nil.                                        *)
(***************************************************************************)
DBSaveFeedback(driverErr) ==
  IF driverErr = NoError THEN NoError ELSE "failed saving feedback: " \o driverErr

(***************************************************************************)
(* The steps the two revisions of SaveFeedback share, line for line.       *)
(***************************************************************************)
\* variants of the shared steps, each with one plausible slip
Mut_MethodNotAllowed(r) == r.method \notin { "POST", "GET" }

\* if r.Method != "POST"
MethodNotAllowed(r) == r.method # "POST"

Mut_HeadersNotPresent(session, role) == Len(session) = 0 /\ Len(role) = 0

\* if len(session) == 0 || len(role) == 0
HeadersNotPresent(session, role) == Len(session) = 0 \/ Len(role) = 0

Mut_MalformedBody(e) ==
  Rejected(writeErrorResponse(StatusBadRequest, Text("malformed JSON request body")))

\* the answer to a body that json.Decoder rejects with error e
MalformedBody(e) ==
  Rejected(writeErrorResponse(StatusBadRequest,
             SprintfErr("malformed JSON request body: %s", e)))

Mut_Save(fb, err) ==
  IF err # NoError
    THEN Result(writeErrorResponse(StatusInternalServerError, Text(err)),
                << [fb |-> fb, err |-> err] >>, << err >>)
    ELSE Result(NoWrite, << [fb |-> fb, err |-> err] >>, << >>)

\* err = c.db.SaveFeedback(r.Context(), fb) and the answer to its outcome
Save(fb, err) ==
  IF err # NoError
    THEN Result(writeErrorResponse(StatusInternalServerError,
                  Text("failed to save feedback")),
                << [fb |-> fb, err |-> err] >>, << err >>)
    ELSE Result(NoWrite, << [fb |-> fb, err |-> err] >>, << >>)

(***************************************************************************)
(* Revision src/unnamed/part_002 of package api.                           *)
(***************************************************************************)
\* fmt.Errorf of the three field rejections (the source's backquotes are written ')
InvalidValue(v, field) ==
  Sprintf("invalid value '%s' for '" \o field \o "'", v)

mapSaveFeedbackRequestFieldsOntoFeedback(feedback, req) ==
  LET Kind == ToLower(req.Kind)
      Value == ToLower(req.Value)
      f1 == [feedback EXCEPT !.Kind = Kind]
      f2 == IF Value # Empty THEN [f1 EXCEPT !.Value = Ptr(Value)] ELSE f1
      f3 == IF req.Email # Empty THEN [f2 EXCEPT !.Email = Ptr(req.Email)] ELSE f2
      f4 == IF req.Message # Empty THEN [f3 EXCEPT !.Message = Ptr(req.Message)] ELSE f3
  IN  IF Kind \notin ValidKinds_part_002
        THEN [err |-> << InvalidValue(Kind, "kind") >>, feedback |-> feedback]
      ELSE IF Value # Empty /\ Value \notin ValidValues
        THEN [err |-> << InvalidValue(Value, "value") >>, feedback |-> f1]
      ELSE IF req.Email # Empty /\ ~emailRegexpMatch(req.Email)
        THEN [err |-> << InvalidValue(req.Email, "email") >>, feedback |-> f2]
      ELSE [err |-> << >>, feedback |-> f4]

SaveFeedback_part_002(r, driverErr) ==
  LET session == HeaderGet(r.session)
      role == HeaderGet(r.role)
      dec == Decode_part_002(r.body)
      feedback == [SessionID |-> session, Role |-> role, Kind |-> Empty,
                   Message |-> Nil, Value |-> Nil, Email |-> Nil]
      mapped == mapSaveFeedbackRequestFieldsOntoFeedback(feedback, dec.req)
  IN  IF MethodNotAllowed(r)
        THEN Rejected(writeErrorResponse(StatusMethodNotAllowed, Text("use POST instead")))
      ELSE IF HeadersNotPresent(session, role)
        THEN Rejected(writeErrorResponse(StatusUnauthorized,
                        Text("expected X-Smarta-Auth-* headers not present")))
      ELSE IF dec.err # NoDecodeError
        THEN MalformedBody(dec.err)
      ELSE IF mapped.err # << >>
        THEN Rejected(writeErrorResponse(StatusBadRequest, mapped.err[1]))
      ELSE Save(mapped.feedback, DBSaveFeedback(driverErr))

(***************************************************************************)
(* Revision src/api/api.go of package api.  Its db.Feedback is the one of   *)
(* src/db/db_test.go:108-116: Message is a plain string and there is no     *)
(* Value and no Email.                                                     *)
(***************************************************************************)
SaveFeedback_api_go(r, driverErr) ==
  LET session == HeaderGet(r.session)
      role == HeaderGet(r.role)
      dec == Decode_api_go(r.body)
      reqObj == dec.req
      feedback == [SessionID |-> session, Role |-> role,
                   Kind |-> reqObj.Kind, Message |-> reqObj.Message]
  IN  IF MethodNotAllowed(r)
        THEN Rejected(writeErrorResponse(StatusMethodNotAllowed, Text("use POST instead")))
      ELSE IF HeadersNotPresent(session, role)
        THEN Rejected(writeErrorResponse(StatusUnauthorized,
                        Text("expected X-Smarta-Auth-* headers not present")))
      ELSE IF dec.err # NoDecodeError
        THEN MalformedBody(dec.err)
      ELSE IF Len(reqObj.Message) = 0
        THEN Rejected(writeErrorResponse(StatusBadRequest,
                        Text("'message' is a required field")))
      ELSE IF ToUpper(reqObj.Kind) \notin ValidKinds_api_go
        THEN Rejected(writeErrorResponse(StatusBadRequest,
                        Sprintf("invalid value '%s' for 'kind'", reqObj.Kind)))
      ELSE Save(feedback, DBSaveFeedback(driverErr))

(***************************************************************************)
(* Table feedbacks (src/db-migrations/1_create_tables.up.sql) and the      *)
(* statements package db runs on it.  A row is                             *)
(*   [id, session_id, role, kind, value, message, email,                   *)
(*    received_moment, silenced]                                           *)
(* with the nullable columns value, message and email as *string.  Time is *)
(* counted in hours, on one clock for the service and the database.        *)
(***************************************************************************)
\* CREATE TYPE kind AS ENUM (...): the labels, compared as written
KindEnum == { s_outage, s_comment, s_service_condition }

\* CREATE TYPE value AS ENUM (...)
ValueEnum == { s_positive, s_negative, s_neutral }

\* SaveFeedbackSQL of src/db/db_test.go:94-97 with the defaults of the table:
\* session_id, role, kind and message are given
Row_api_go(fb, id, moment) ==
  [id |-> id, session_id |-> fb.SessionID, role |-> fb.Role, kind |-> fb.Kind,
   value |-> Nil, message |-> Ptr(fb.Message), email |-> Nil,
   received_moment |-> moment, silenced |-> FALSE]

\* SaveFeedbackSQL of src/unnamed/part_000:12-15 with the defaults of the table
Row_part_002(fb, id, moment) ==
  [id |-> id, session_id |-> fb.SessionID, role |-> fb.Role, kind |-> fb.Kind,
   value |-> fb.Value, message |-> fb.Message, email |-> fb.Email,
   received_moment |-> moment, silenced |-> FALSE]

\* the table takes a row only if kind, and value when not NULL, is a label
\* of its enum type
InsertAccepted(row) ==
  /\ row.kind \in KindEnum
  /\ IF row.value = Nil THEN TRUE ELSE row.value[1] \in ValueEnum

Mut_GetRecentOutagesSQL(row, since) ==
  /\ row.kind = s_outage
  /\ row.received_moment >= since
  /\ ~row.silenced

\* WHERE kind = 'outage' AND received_moment > $1 AND NOT silenced
GetRecentOutagesSQL(row, since) ==
  /\ row.kind = s_outage
  /\ row.received_moment > since
  /\ ~row.silenced

\* the result sets the SELECT may deliver: it has no ORDER BY, so the
\* matching rows come in any order
ResultSets(rows, since) ==
  LET match == { i \in DOMAIN rows : GetRecentOutagesSQL(rows[i], since) }
      n == Cardinality(match)
      orders == { p \in [1..n -> match] : \A a, b \in 1..n : a # b => p[a] # p[b] }
  IN  { [k \in 1..n |-> rows[p[k]]] : p \in orders }

\* rows.Scan into the Feedback of src/db/db_test.go:108-116 (Message string)
Scan_api_go(row) ==
  [ID |-> row.id, SessionID |-> row.session_id, Role |-> row.role, Kind |-> row.kind,
   Message |-> IF row.message = Nil THEN Empty ELSE row.message[1],
   ReceivedAt |-> row.received_moment, Silenced |-> row.silenced]

\* rows.Scan into the Feedback of src/unnamed/part_000:26-36 (Message *string)
Scan_part_002(row) ==
  [ID |-> row.id, SessionID |-> row.session_id, Role |-> row.role, Kind |-> row.kind,
   Message |-> row.message,
   ReceivedAt |-> row.received_moment, Silenced |-> row.silenced]

\* what GetRecentOutages returns: the records and the error
Recent(rows, err) == [rows |-> rows, err |-> err]

\* db.Client.GetRecentOutages of src/db/db_test.go:173-199; a NULL message
\* does not scan into a string
DBGetRecentOutages_api_go(resultSet, queryErr, scanErr) ==
  IF queryErr # NoError
    THEN Recent(<< >>, "failed saving feedback: " \o queryErr)
  ELSE IF \E k \in DOMAIN resultSet : resultSet[k].message = Nil
    THEN Recent(<< >>, "failed scanning feedback results: converting NULL to string")
  ELSE IF resultSet # << >> /\ scanErr # NoError
    THEN Recent(<< >>, "failed scanning feedback results: " \o scanErr)
  ELSE Recent([k \in DOMAIN resultSet |-> Scan_api_go(resultSet[k])], NoError)

\* db.Client.GetRecentOutages of src/unnamed/part_000:85-111
DBGetRecentOutages_part_002(resultSet, queryErr, scanErr) ==
  IF queryErr # NoError
    THEN Recent(<< >>, "failed saving feedback: " \o queryErr)
  ELSE IF resultSet # << >> /\ scanErr # NoError
    THEN Recent(<< >>, "failed scanning feedback results: " \o scanErr)
  ELSE Recent([k \in DOMAIN resultSet |-> Scan_part_002(resultSet[k])], NoError)

(***************************************************************************)
(* Health, in both revisions.                                              *)
(***************************************************************************)
\* the lookback of Health in hours: time.Now().Add(-48*time.Hour)
Window == 48

\* Status{Name, Description, Healthy, Metadata}; Metadata is omitted when nil
Status(name, description, healthy, metadata) ==
  [name |-> name, description |-> description, healthy |-> healthy,
   metadata |-> metadata]

Mut_DatabaseStatus(healthy) ==
  Status("database", "postgres backend", healthy /\ Len(inflight) <= 1, Nil)

DatabaseStatus(healthy) == Status("database", "postgres backend", healthy, Nil)

writeJSONResponse(status, body) == [code |-> status, body |-> << body >>]

HealthResponse(statuses) == [statuses |-> statuses]

\* a call of Health to the collaborator: the operation, the argument since
\* (of GetRecentOutages), the records and the error returned
Call(op, since, rows, err) == [op |-> op, since |-> since, rows |-> rows, err |-> err]

HealthResult(resp, calls, logs) ==
  [resp |-> resp, saves |-> << >>, logs |-> logs, calls |-> calls]

\* outageReport{ID, Message, ReceivedAt} with Message string
outageReport_api_go(rep) ==
  [id |-> rep.ID, message |-> Ptr(rep.Message), received_at |-> rep.ReceivedAt]

\* outageReport{ID, Message, ReceivedAt} with Message *string, omitempty
outageReport_part_002(rep) ==
  [id |-> rep.ID, message |-> rep.Message, received_at |-> rep.ReceivedAt]

\* the outageReport of the revision that runs
outageReport(rep) ==
  IF revision = "api.go" THEN outageReport_api_go(rep) ELSE outageReport_part_002(rep)

Mut_reportStatusFromFeedbackList(outageReports) ==
  IF Len(outageReports) = 0
    THEN Status("user_outage_reports", "outage reports directly from users", TRUE, Nil)
    ELSE Status("user_outage_reports", "outage reports directly from users", FALSE,
                Ptr([outages |-> << outageReport(outageReports[1]) >>]))

reportStatusFromFeedbackList(outageReports) ==
  IF Len(outageReports) = 0
    THEN Status("user_outage_reports", "outage reports directly from users", TRUE, Nil)
    ELSE Status("user_outage_reports", "outage reports directly from users", FALSE,
                Ptr([outages |-> [k \in DOMAIN outageReports |->
                                    outageReport(outageReports[k])]]))

Mut_Deferred(statuses) ==
  writeJSONResponse(
    IF Len(statuses) = 0 THEN StatusInternalServerError ELSE StatusOK,
    HealthResponse(IF Len(statuses) = 0 THEN << DatabaseStatus(FALSE) >> ELSE statuses))

\* the deferred function of Health: the degraded entry when nothing was
\* appended, and the one write of the response
Deferred(statuses) ==
  writeJSONResponse(StatusOK,
    HealthResponse(IF Len(statuses) = 0 THEN << DatabaseStatus(FALSE) >> ELSE statuses))

Mut_Healthy(outageReports) ==
  << DatabaseStatus(TRUE),
     Status("user_outage_reports", "outage reports directly from users",
            Len(outageReports) = 0,
            Ptr([outages |-> [k \in DOMAIN outageReports |->
                                outageReport(outageReports[k])]])) >>

\* the two entries appended when both calls succeeded
Healthy(outageReports) ==
  << DatabaseStatus(TRUE), reportStatusFromFeedbackList(outageReports) >>

Mut_Health_api_go(r, pingErr, since, recent) ==
  LET ping == Call("TestConnection", 0, << >>, pingErr)
      query == Call("GetRecentOutages", since, recent.rows, recent.err)
  IN  IF pingErr # NoError
        THEN HealthResult(Deferred(<< >>), << ping, query >>, << pingErr >>)
      ELSE IF recent.err # NoError
        THEN HealthResult(Deferred(<< >>), << ping, query >>, << recent.err >>)
      ELSE HealthResult(Deferred(Healthy(recent.rows)),
                        << ping, query >>, << >>)

\* Client.Health of src/api/api.go: r is not looked at
Health_api_go(r, pingErr, since, recent) ==
  LET ping == Call("TestConnection", 0, << >>, pingErr)
      query == Call("GetRecentOutages", since, recent.rows, recent.err)
  IN  IF pingErr # NoError
        THEN HealthResult(Deferred(<< >>), << ping >>, << pingErr >>)
      ELSE IF recent.err # NoError
        THEN HealthResult(Deferred(<< >>), << ping, query >>, << recent.err >>)
      ELSE HealthResult(Deferred(Healthy(recent.rows)),
                        << ping, query >>, << >>)

\* Client.Health of src/unnamed/part_002: no connectivity test
Health_part_002(r, since, recent) ==
  LET query == Call("GetRecentOutages", since, recent.rows, recent.err)
  IN  IF recent.err # NoError
        THEN HealthResult(Deferred(<< >>), << query >>, << recent.err >>)
      ELSE HealthResult(Deferred(Healthy(recent.rows)),
                        << query >>, << >>)

(***************************************************************************)
(* The requests a client may send.                                         *)
(***************************************************************************)
s_session == <<"r","3","9">>
s_anonymous == <<"a","n","o","n","y","m","o","u","s">>
s_outAGE == <<"o","u","t","A","G","E">>
s_SERVICE_CONDITION == ServiceConditionKind
s_Sdf == <<"S","d","f">>
s_blank == <<" ">>
s_POSitive == <<"P","O","S","i","t","i","v","e">>
s_email == <<"u","s","e","r","@","n","o","t","s","m","a","r","t","a",".","n","e","t">>
s_my_message == <<"M","y"," ","m","e","s","s","a","g","e"," ">>

Revisions == { "api.go", "part_002" }

\* the two routes of the server
FeedbackPath == "/v1/feedback"
HealthPath == "/v1/health"

Methods == { "POST", "GET", "post" }

SessionHeaders == { Absent, Str(Empty), Str(s_session) }

RoleHeaders == { Absent, Str(Empty), Str(s_anonymous) }

KindMembers ==
  { Absent, Num, Str(Empty), Str(s_outAGE), Str(s_comment), Str(s_SERVICE_CONDITION),
    Str(s_Sdf) }

ValueMembers ==
  { Absent, Num, Str(Empty), Str(s_blank), Str(s_POSitive), Str(s_neutral), Str(s_Sdf) }

MessageMembers == { Absent, Num, Str(Empty), Str(s_my_message) }

EmailMembers == { Absent, Num, Str(Empty), Str(s_email), Str(s_Sdf) }

Object(k, v, m, e) == [form |-> "object", kind |-> k, value |-> v, message |-> m, email |-> e]

Bodies ==
  { [form |-> f, kind |-> Absent, value |-> Absent, message |-> Absent, email |-> Absent] :
      f \in { "empty", "truncated" } }
  \cup { Object(k, v, m, e) :
           k \in KindMembers, v \in ValueMembers, m \in MessageMembers, e \in EmailMembers }

Requests ==
  { [path |-> FeedbackPath, method |-> me, session |-> se, role |-> ro, body |-> b] :
      me \in Methods, se \in SessionHeaders, ro \in RoleHeaders, b \in Bodies }

\* what the database driver answers to the INSERT
DriverErrors == { NoError, "insert failed", "connection refused" }

\* what the driver answers to the ping, to the SELECT and to a scan
PingErrors == { NoError, "ping failed" }
QueryErrors == { NoError, "select failed" }
ScanErrors == { NoError, "scan failed" }

\* the hours the clock advances by in one step
ClockSteps == { 24 }

(***************************************************************************)
(* The state machine.                                                      *)
(*   revision  the revision of package api the binary is built from        *)
(*   inflight  the requests being handled, one goroutine each: the request *)
(*             and how far its handler has come                            *)
(*   done      the exchanges handled and not yet read by their clients:    *)
(*             the request, the response, the records handed to            *)
(*             c.db.SaveFeedback, the other calls to c.db and the lines    *)
(*             logged                                                      *)
(*   store     the rows of table feedbacks, in insertion order             *)
(*   now       the clock, in hours                                         *)
(***************************************************************************)
Init ==
  /\ revision \in Revisions
  /\ inflight = << >>
  /\ done = << >>
  /\ store = << >>
  /\ now = 0

\* the goroutine net/http starts for a request
Start(r) == [req |-> r, pc |-> "start"]

\* a client sends a request to /v1/feedback and waits for the answer
Request ==
  /\ inflight = << >>
  /\ done = << >>
  /\ Len(store) < MaxStore
  /\ \E r \in Requests : inflight' = << Start(r) >>
  /\ UNCHANGED <<revision, done, store, now>>

Exchange(r, out) ==
  [req |-> r, resp |-> out.resp, saves |-> out.saves, logs |-> out.logs,
   calls |-> out.calls]

\* the records of the calls of c.db.SaveFeedback that returned nil
Inserted(out) ==
  IF out.saves # << >> /\ out.saves[1].err = NoError THEN << out.saves[1].fb >> ELSE << >>

\* the row the INSERT of a record makes: a fresh id, received now, not silenced
NewRow(fb) ==
  IF revision = "api.go" THEN Row_api_go(fb, Len(store) + 1, now)
                         ELSE Row_part_002(fb, Len(store) + 1, now)

\* the driver answers nil to an INSERT only if the table takes the row
Answerable(out) == \A k \in DOMAIN Inserted(out) : InsertAccepted(NewRow(Inserted(out)[k]))

Remove(s, i) == SubSeq(s, 1, i - 1) \o SubSeq(s, i + 1, Len(s))

\* the handler of goroutine i returns
Serve(i, out) ==
  /\ done' = Append(done, Exchange(inflight[i].req, out))
  /\ inflight' = Remove(inflight, i)
  /\ store' = store \o [k \in DOMAIN Inserted(out) |-> NewRow(Inserted(out)[k])]
  /\ UNCHANGED <<revision, now>>

ServeFeedback_part_002 ==
  /\ revision = "part_002"
  /\ \E i \in DOMAIN inflight :
       /\ inflight[i].req.path = FeedbackPath
       /\ \E driverErr \in DriverErrors :
            LET out == SaveFeedback_part_002(inflight[i].req, driverErr)
            IN  Answerable(out) /\ Serve(i, out)

ServeFeedback_api_go ==
  /\ revision = "api.go"
  /\ \E i \in DOMAIN inflight :
       /\ inflight[i].req.path = FeedbackPath
       /\ \E driverErr \in DriverErrors :
            LET out == SaveFeedback_api_go(inflight[i].req, driverErr)
            IN  Answerable(out) /\ Serve(i, out)

\* a client reads its response
Deliver ==
  /\ done # << >>
  /\ done' = Tail(done)
  /\ UNCHANGED <<revision, inflight, store, now>>

Next ==
  \/ Request
  \/ ServeFeedback_part_002
  \/ ServeFeedback_api_go
  \/ Deliver

Spec == Init /\ [][Next]_vars

(***************************************************************************)
(* The e-mail specification: one valid submission whose email member is    *)
(* any string of up to MaxEmailLen characters over a small alphabet (a     *)
(* letter, a digit, the two separators, a character of the local class     *)
(* only, a character of no class), handled by the same handlers.           *)
(***************************************************************************)
EmailAlphabet == { "a", "1", "@", ".", "_", "!" }

EmailStrings == UNION { [1..n -> EmailAlphabet] : n \in 0..MaxEmailLen }

EmailRequest(e) ==
  [path |-> FeedbackPath, method |-> "POST", session |-> Str(s_session),
   role |-> Str(s_anonymous),
   body |-> Object(Str(s_outAGE), Str(s_POSitive), Str(s_my_message), Str(e))]

InitEmail ==
  /\ revision \in Revisions
  /\ \E e \in EmailStrings : inflight = << Start(EmailRequest(e)) >>
  /\ done = << >>
  /\ store = << >>
  /\ now = 0

NextEmail ==
  \/ ServeFeedback_part_002
  \/ ServeFeedback_api_go
  \/ Deliver

SpecEmail == InitEmail /\ [][NextEmail]_vars

(***************************************************************************)
(* The service specification: the server of src/main.go with both routes,  *)
(* up to MaxInflight requests handled at the same time, the clock, and the *)
(* moderation tooling that silences rows.  A handler takes one step per    *)
(* call to the database, so that the calls of different requests           *)
(* interleave; what it does between two calls touches nothing shared.      *)
(***************************************************************************)
s_outage_report == <<"b","u","s"," ","l","a","t","e">>

Submission(me, ro, k, m) ==
  [path |-> FeedbackPath, method |-> me, session |-> Str(s_session), role |-> ro,
   body |-> Object(k, Absent, m, Absent)]

\* the submissions of the service specification: accepted ones of two kinds
\* and two letter cases, with and without message, and one for each rejection
Submissions ==
  { Submission("POST", Str(s_anonymous), Str(k), Str(s_outage_report)) :
      k \in { s_outAGE, s_outage, s_comment, s_Sdf } }
  \cup { Submission("POST", Str(s_anonymous), Str(s_outage), Absent),
         Submission("GET", Str(s_anonymous), Str(s_outage), Str(s_outage_report)),
         Submission("POST", Absent, Str(s_outage), Str(s_outage_report)) }

\* Health is routed for every method and reads neither header nor body
HealthRequests ==
  { [path |-> HealthPath, method |-> me, session |-> Absent, role |-> Absent,
     body |-> [form |-> "empty", kind |-> Absent, value |-> Absent,
               message |-> Absent, email |-> Absent]] : me \in { "GET", "POST" } }

\* a client submits feedback
Submit ==
  /\ Len(inflight) + Len(done) < MaxInflight
  /\ Len(store) + Len(inflight) < MaxRows
  /\ \E r \in Submissions : inflight' = Append(inflight, Start(r))
  /\ UNCHANGED <<revision, done, store, now>>

\* a monitor asks for /v1/health
Probe ==
  /\ Len(inflight) + Len(done) < MaxInflight
  /\ \E r \in HealthRequests : inflight' = Append(inflight, Start(r))
  /\ UNCHANGED <<revision, done, store, now>>

\* src/api/api.go:150-154: c.db.TestConnection, and the return when it fails
TestConnection_api_go ==
  /\ revision = "api.go"
  /\ \E i \in DOMAIN inflight :
       /\ inflight[i].req.path = HealthPath
       /\ inflight[i].pc = "start"
       /\ \E pingErr \in PingErrors :
            IF pingErr = NoError
              THEN /\ inflight' = [inflight EXCEPT ![i].pc = "tested"]
                   /\ UNCHANGED <<revision, done, store, now>>
              ELSE Serve(i, Health_api_go(inflight[i].req, pingErr, now - Window,
                                          Recent(<< >>, NoError)))

\* src/api/api.go:156-170: c.db.GetRecentOutages and the rest of Health
GetRecentOutages_api_go ==
  /\ revision = "api.go"
  /\ \E i \in DOMAIN inflight :
       /\ inflight[i].req.path = HealthPath
       /\ inflight[i].pc = "tested"
       /\ \E resultSet \in ResultSets(store, now - Window),
             queryErr \in QueryErrors, scanErr \in ScanErrors :
            Serve(i, Health_api_go(inflight[i].req, NoError, now - Window,
                       DBGetRecentOutages_api_go(resultSet, queryErr, scanErr)))

\* src/unnamed/part_002:222-249: Health, whose one call is GetRecentOutages
ServeHealth_part_002 ==
  /\ revision = "part_002"
  /\ \E i \in DOMAIN inflight :
       /\ inflight[i].req.path = HealthPath
       /\ \E resultSet \in ResultSets(store, now - Window),
             queryErr \in QueryErrors, scanErr \in ScanErrors :
            Serve(i, Health_part_002(inflight[i].req, now - Window,
                       DBGetRecentOutages_part_002(resultSet, queryErr, scanErr)))

\* time passes
Tick ==
  /\ \E d \in ClockSteps : now + d <= MaxNow /\ now' = now + d
  /\ UNCHANGED <<revision, inflight, done, store>>

\* the moderation tooling silences a row
Silence ==
  /\ \E i \in DOMAIN store :
       /\ ~store[i].silenced
       /\ store' = [store EXCEPT ![i].silenced = TRUE]
  /\ UNCHANGED <<revision, inflight, done, now>>

NextService ==
  \/ Submit
  \/ Probe
  \/ ServeFeedback_part_002
  \/ ServeFeedback_api_go
  \/ TestConnection_api_go
  \/ GetRecentOutages_api_go
  \/ ServeHealth_part_002
  \/ Deliver
  \/ Tick
  \/ Silence

SpecService == Init /\ [][NextService]_vars

(***************************************************************************)
(* Vocabulary of the properties.                                           *)
(***************************************************************************)
Handled == done # << >>

\* the exchange just handled
ex == done[1]

\* the string a member of the body carries as sent ("" when absent)
Sent(jv) == IF jv.t = "string" THEN jv.s ELSE Empty

HeaderMissing(h) == h.t = "absent" \/ h.s = Empty

\* a POST request carrying both identity headers
PastHeaders(r) ==
  r.method = "POST" /\ ~HeaderMissing(r.session) /\ ~HeaderMissing(r.role)

\* the body is a JSON object whose members are strings where present
Parses(b) ==
  /\ b.form = "object"
  /\ \A jv \in { b.kind, b.value, b.message, b.email } : jv.t # "number"

\* the decoding error of the revision that runs
DecodeError(b) ==
  IF revision = "api.go" THEN Decode_api_go(b).err ELSE Decode_part_002(b).err

EqualFold(a, b) ==
  Len(a) = Len(b) /\ \A i \in 1..Len(a) : ToLowerChar(a[i]) = ToLowerChar(b[i])

KindAccepted(k) == \E c \in { s_outage, s_comment, s_service_condition } : EqualFold(k, c)

ValueAccepted(v) == \E c \in { s_positive, s_negative, s_neutral } : EqualFold(v, c)

Whitespace == { " ", "\t", "\n", "\r" }

\* empty after trimming whitespace
Blank(v) == \A i \in 1..Len(v) : v[i] \in Whitespace

\* local@domain.tld: a non-empty local part, a domain with a dot, a final
\* segment of two or more letters
EmailShape(e) ==
  \E at \in 1..Len(e), dot \in 1..Len(e) :
     /\ e[at] = "@"
     /\ at > 1
     /\ \A k \in 1..(at - 1) : e[k] # "@"
     /\ dot > at + 1
     /\ e[dot] = "."
     /\ Len(e) - dot >= 2
     /\ \A k \in (dot + 1)..Len(e) : e[k] \in Letters

\* the response is the 400 that names the given field
Names(resp, field) ==
  /\ resp.code = 400
  /\ resp.body # << >>
  /\ resp.body[1].message.fmt = "invalid value '%s' for '" \o field \o "'"

SaveCalled == ex.saves # << >>

SaveFailed == SaveCalled /\ ex.saves[1].err # NoError

SaveSucceeded == SaveCalled /\ ex.saves[1].err = NoError

\* an optional string as the store holds it: absent when empty
Opt(v) == IF v = Empty THEN Nil ELSE Ptr(v)

\* the optional fields of the record handed to the store, absent when the
\* record type of the revision has no such field
StoredValue(fb) == IF "Value" \in DOMAIN fb THEN fb.Value ELSE Nil

StoredEmail(fb) == IF "Email" \in DOMAIN fb THEN fb.Email ELSE Nil

StoredMessage(fb) == IF revision = "api.go" THEN Opt(fb.Message) ELSE fb.Message

(***************************************************************************)
(* C1: the checks are applied in the order method, identity headers,       *)
(* body, kind, value, email, and the response reports the first check      *)
(* that fails: its status and message are those of the earliest failing    *)
(* check, whatever the later checks would say.                             *)
(***************************************************************************)
Check(i, r) ==
  CASE i = 1 -> r.method # "POST"
    [] i = 2 -> HeaderMissing(r.session) \/ HeaderMissing(r.role)
    [] i = 3 -> ~Parses(r.body)
    [] i = 4 -> Parses(r.body) /\ ~KindAccepted(Sent(r.body.kind))
    [] i = 5 -> /\ Parses(r.body)
                /\ ~Blank(Sent(r.body.value))
                /\ ~ValueAccepted(Sent(r.body.value))
    [] i = 6 -> /\ Parses(r.body)
                /\ Sent(r.body.email) # Empty
                /\ ~EmailShape(Sent(r.body.email))

FailingChecks(r) == { i \in 1..6 : Check(i, r) }

\* the earliest failing check, 0 when none fails
FirstFailing(r) ==
  IF FailingChecks(r) = {} THEN 0
  ELSE CHOOSE i \in FailingChecks(r) : \A j \in FailingChecks(r) : i <= j

\* the check a response reports: 0 when it reports none of the six, 7 for a
\* rejection that belongs to none of them
Reported(resp) ==
  CASE resp.code = 405 -> 1
    [] resp.code = 401 -> 2
    [] resp.code = 400 /\ resp.body[1].message.fmt = "malformed JSON request body: %s" -> 3
    [] Names(resp, "kind") -> 4
    [] Names(resp, "value") -> 5
    [] Names(resp, "email") -> 6
    [] resp.code = 400 -> 7
    [] OTHER -> 0

C1_FirstFailureWins == Handled => Reported(ex.resp) = FirstFailing(ex.req)

\* src/api/api.go: an invalid kind in a body without message is reported as
\* the missing message, a check that is not in the list
C1_Failing ==
  /\ Handled
  /\ revision = "api.go"
  /\ PastHeaders(ex.req)
  /\ ex.req.body = Object(Str(s_Sdf), Absent, Absent, Absent)
  /\ FirstFailing(ex.req) = 4
  /\ ex.resp.body[1].message.fmt = "'message' is a required field"

(***************************************************************************)
(* C2: every request whose method is not POST, whatever its headers and    *)
(* body, is answered 405 and the persistence collaborator is not called.   *)
(***************************************************************************)
C2_NonPostIs405 ==
  Handled /\ ex.req.method # "POST" =>
    /\ ex.resp.code = 405
    /\ ex.resp.body # << >> /\ ex.resp.body[1].status = 405
    /\ ~SaveCalled

\* a GET that would pass every later check is answered 405
C2_Witness ==
  /\ Handled
  /\ ex.req.method = "GET"
  /\ ~HeaderMissing(ex.req.session) /\ ~HeaderMissing(ex.req.role)
  /\ ex.req.body = Object(Str(s_outAGE), Str(s_POSitive), Str(s_my_message), Str(s_email))
  /\ ex.resp.code = 405

(***************************************************************************)
(* C3: every POST request in which the session header or the role header   *)
(* is absent or empty is answered 401, whatever the body; when both are    *)
(* non-empty the answer is never 401.                                      *)
(***************************************************************************)
C3_MissingHeaderIs401 ==
  Handled =>
    /\ ex.req.method = "POST"
         /\ (HeaderMissing(ex.req.session) \/ HeaderMissing(ex.req.role))
       => ex.resp.code = 401 /\ ~SaveCalled
    /\ ~HeaderMissing(ex.req.session) /\ ~HeaderMissing(ex.req.role)
       => ex.resp.code # 401

\* a POST with only the role header missing and an otherwise valid body
C3_Witness ==
  /\ Handled
  /\ ex.req.method = "POST"
  /\ ~HeaderMissing(ex.req.session)
  /\ ex.req.role = Absent
  /\ ex.req.body = Object(Str(s_outAGE), Str(s_POSitive), Str(s_my_message), Str(s_email))
  /\ ex.resp.code = 401

(***************************************************************************)
(* C4: every POST request with both identity headers whose body does not   *)
(* decode is answered 400 with a {status, message} body whose status is    *)
(* 400 and whose message carries the text of the decoding error.           *)
(***************************************************************************)
C4_MalformedBodyIs400 ==
  Handled /\ PastHeaders(ex.req) /\ DecodeError(ex.req.body) # NoDecodeError =>
    /\ ex.resp.code = 400
    /\ Len(ex.resp.body) = 1
    /\ ex.resp.body[1].status = 400
    /\ ex.resp.body[1].message.fmt = "malformed JSON request body: %s"
    /\ ex.resp.body[1].message.err = DecodeError(ex.req.body)
    /\ ~SaveCalled

\* the body "{" is answered 400 with "unexpected EOF"
C4_Witness ==
  /\ Handled
  /\ PastHeaders(ex.req)
  /\ ex.req.body.form = "truncated"
  /\ ex.resp.code = 400
  /\ ex.resp.body[1].message.err.text = "unexpected EOF"

(***************************************************************************)
(* C5: for a POST with both identity headers and a body that parses, a     *)
(* kind that is not one of outage, comment, service_condition in any       *)
(* letter case (an absent or empty kind included) is answered 400 with a   *)
(* message that names kind and carries the value as sent; a kind that is   *)
(* one of the three is never the reason of a rejection.                    *)
(***************************************************************************)
C5_KindRejection ==
  Handled /\ PastHeaders(ex.req) /\ Parses(ex.req.body) =>
    /\ ~KindAccepted(Sent(ex.req.body.kind)) =>
         /\ Names(ex.resp, "kind")
         /\ ex.resp.body[1].message.arg = Sent(ex.req.body.kind)
    /\ KindAccepted(Sent(ex.req.body.kind)) => ~Names(ex.resp, "kind")

\* src/api/api.go: kind Sdf without message is answered with the missing message
C5_Failing ==
  /\ Handled
  /\ revision = "api.go"
  /\ PastHeaders(ex.req)
  /\ ex.req.body = Object(Str(s_Sdf), Absent, Absent, Absent)
  /\ ~Names(ex.resp, "kind")
  /\ ex.resp.body[1].message.fmt = "'message' is a required field"

\* src/unnamed/part_002: kind Sdf is echoed in lower case, not as sent
C5_Failing_part_002 ==
  /\ Handled
  /\ revision = "part_002"
  /\ PastHeaders(ex.req)
  /\ ex.req.body = Object(Str(s_Sdf), Absent, Absent, Absent)
  /\ Names(ex.resp, "kind")
  /\ ex.resp.body[1].message.arg = <<"s","d","f">>

(***************************************************************************)
(* C6: value counts as supplied only when it is non-empty after trimming   *)
(* whitespace.  An absent, empty or whitespace-only value never causes a   *)
(* rejection and is stored as absent; any other value leads to a 400 that  *)
(* names value unless it is positive, negative or neutral in any letter    *)
(* case.  (Stated for requests that pass the checks before value.)         *)
(***************************************************************************)
C6_ValueRule ==
  Handled /\ PastHeaders(ex.req) /\ Parses(ex.req.body)
          /\ KindAccepted(Sent(ex.req.body.kind)) =>
    LET v == Sent(ex.req.body.value)
    IN  /\ Blank(v) =>
             /\ ~Names(ex.resp, "value")
             /\ SaveCalled => StoredValue(ex.saves[1].fb) = Nil
        /\ ~Blank(v) /\ ~ValueAccepted(v) => Names(ex.resp, "value")
        /\ ~Blank(v) /\ ValueAccepted(v) => ~Names(ex.resp, "value")

\* src/api/api.go: value Sdf is not looked at and the record is saved
C6_Failing ==
  /\ Handled
  /\ revision = "api.go"
  /\ PastHeaders(ex.req)
  /\ ex.req.body = Object(Str(s_comment), Str(s_Sdf), Str(s_my_message), Absent)
  /\ ex.resp.code = 200
  /\ SaveSucceeded

\* src/unnamed/part_002: a value of one space is rejected, it is not trimmed
C6_Failing_part_002 ==
  /\ Handled
  /\ revision = "part_002"
  /\ PastHeaders(ex.req)
  /\ ex.req.body = Object(Str(s_outAGE), Str(s_blank), Str(s_my_message), Absent)
  /\ Names(ex.resp, "value")

(***************************************************************************)
(* C7: a non-empty email is accepted exactly when it has the shape         *)
(* local@domain.tld (a non-empty local part, a domain with at least one    *)
(* dot, a final segment of two or more letters); every other non-empty     *)
(* email is answered 400 naming email; an absent or empty email never      *)
(* causes a rejection.  (Stated for requests that pass the checks before   *)
(* email.)                                                                 *)
(***************************************************************************)
C7_EmailRule ==
  Handled /\ PastHeaders(ex.req) /\ Parses(ex.req.body)
          /\ KindAccepted(Sent(ex.req.body.kind))
          /\ (Sent(ex.req.body.value) = Empty \/ ValueAccepted(Sent(ex.req.body.value))) =>
    LET e == Sent(ex.req.body.email)
    IN  /\ e = Empty => ~Names(ex.resp, "email")
        /\ e # Empty /\ EmailShape(e) => ~Names(ex.resp, "email")
        /\ e # Empty /\ ~EmailShape(e) => Names(ex.resp, "email")

\* src/api/api.go: the email a1 is not looked at and the record is handed
\* to the store
C7_Failing ==
  /\ Handled
  /\ revision = "api.go"
  /\ ex.req = EmailRequest(<<"a","1">>)
  /\ ~Names(ex.resp, "email")
  /\ SaveCalled

\* src/unnamed/part_002: !@a.aa has the shape and is rejected, "!" is not in
\* the local class of the pattern
C7_Failing_part_002 ==
  /\ Handled
  /\ revision = "part_002"
  /\ ex.req = EmailRequest(<<"!","@","a",".","a","a">>)
  /\ EmailShape(Sent(ex.req.body.email))
  /\ Names(ex.resp, "email")

(***************************************************************************)
(* C8: for every request that passes validation and whose save succeeds    *)
(* the answer is 200 and the record handed to the store has the session    *)
(* identifier and the role of the headers, the kind and the value in       *)
(* lower case, and the email and the message as submitted.                 *)
(***************************************************************************)
C8_StoredRecord ==
  Handled /\ SaveSucceeded =>
    LET fb == ex.saves[1].fb
        b == ex.req.body
    IN  /\ ex.resp.code = 200
        /\ Len(ex.saves) = 1
        /\ fb.SessionID = ex.req.session.s
        /\ fb.Role = ex.req.role.s
        /\ fb.Kind = ToLower(Sent(b.kind))
        /\ fb.Kind \in { s_outage, s_comment, s_service_condition }
        /\ StoredValue(fb) = Opt(ToLower(Sent(b.value)))
        /\ StoredEmail(fb) = Opt(Sent(b.email))
        /\ StoredMessage(fb) = Opt(Sent(b.message))

\* src/api/api.go: the value and the email of a saved comment are dropped
C8_Failing ==
  /\ Handled
  /\ revision = "api.go"
  /\ ex.req.body = Object(Str(s_comment), Str(s_POSitive), Str(s_my_message), Str(s_email))
  /\ SaveSucceeded
  /\ ex.resp.code = 200
  /\ StoredValue(ex.saves[1].fb) = Nil
  /\ StoredEmail(ex.saves[1].fb) = Nil

(***************************************************************************)
(* C9: message is optional and not validated: a request that is valid      *)
(* otherwise is accepted whether message is absent, empty or any string,   *)
(* a non-empty message is stored as sent and an absent or empty one is     *)
(* stored as absent.                                                       *)
(***************************************************************************)
OtherwiseValid(r) ==
  /\ PastHeaders(r)
  /\ Parses(r.body)
  /\ KindAccepted(Sent(r.body.kind))
  /\ Sent(r.body.value) = Empty \/ ValueAccepted(Sent(r.body.value))
  /\ Sent(r.body.email) = Empty \/ EmailShape(Sent(r.body.email))

C9_MessageOptional ==
  Handled /\ OtherwiseValid(ex.req) =>
    /\ SaveCalled
    /\ ex.resp.code \in { 200, 500 }
    /\ StoredMessage(ex.saves[1].fb) = Opt(Sent(ex.req.body.message))

\* src/api/api.go: a valid request without message is rejected
C9_Failing ==
  /\ Handled
  /\ revision = "api.go"
  /\ OtherwiseValid(ex.req)
  /\ ex.req.body = Object(Str(s_outAGE), Str(s_POSitive), Absent, Str(s_email))
  /\ ex.resp.code = 400
  /\ ex.resp.body[1].message.fmt = "'message' is a required field"
  /\ ~SaveCalled

(***************************************************************************)
(* C10: when the save fails the answer is 500 with one fixed message,      *)
(* the same for every underlying error: the status and the body do not     *)
(* depend on the error, and no part of its text reaches the caller.        *)
(***************************************************************************)
FixedSaveFailure ==
  [code |-> 500,
   body |-> << [status |-> 500,
                message |-> [fmt |-> "failed to save feedback", arg |-> Empty,
                             err |-> [text |-> "", field |-> "", type |-> ""]]] >>]

C10_SaveFailureIsOpaque ==
  Handled /\ SaveFailed => ex.resp = FixedSaveFailure

\* a save that failed with one of the two driver errors, logged in full
C10_Witness ==
  /\ Handled
  /\ SaveFailed
  /\ ex.saves[1].err = "failed saving feedback: connection refused"
  /\ ex.logs = << "failed saving feedback: connection refused" >>
  /\ ex.resp.code = 500

(***************************************************************************)
(* Vocabulary of the properties of Health.                                 *)
(***************************************************************************)
\* the exchanges of the two routes handled and not yet read
HealthDone == { e \in Range(done) : e.req.path = HealthPath }

FeedbackDone == { e \in Range(done) : e.req.path = FeedbackPath }

\* the statuses list of the document a Health exchange wrote
Statuses(e) == e.resp.body[1].statuses

CallsOf(e, op) == { k \in DOMAIN e.calls : e.calls[k].op = op }

ConnectivityFailed(e) ==
  \E k \in CallsOf(e, "TestConnection") : e.calls[k].err # NoError

QueryCalled(e) == CallsOf(e, "GetRecentOutages") # {}

QueryFailed(e) ==
  \E k \in CallsOf(e, "GetRecentOutages") : e.calls[k].err # NoError

\* the records the recent-outages query returned to the exchange
QueryRows(e) == e.calls[CHOOSE k \in CallsOf(e, "GetRecentOutages") : TRUE].rows

\* connectivity did not fail and the query returned records
QueryAnswered(e) == ~ConnectivityFailed(e) /\ QueryCalled(e) /\ ~QueryFailed(e)

DegradedEntry ==
  [name |-> "database", description |-> "postgres backend", healthy |-> FALSE,
   metadata |-> << >>]

(***************************************************************************)
(* C11: Health answers with the degraded response, exactly the one entry   *)
(* {database, postgres backend, healthy false} without metadata, if and    *)
(* only if the connectivity test fails or the recent-outages query fails;  *)
(* when the connectivity test fails the query is not called.               *)
(***************************************************************************)
C11_DegradedIffFailure ==
  \A e \in HealthDone :
    /\ Statuses(e) = << DegradedEntry >> <=> (ConnectivityFailed(e) \/ QueryFailed(e))
    /\ ConnectivityFailed(e) => ~QueryCalled(e)

\* one Health whose connectivity test failed and one whose query failed,
\* both answered with the degraded entry
C11_Witness ==
  /\ Len(done) = 2
  /\ done[1].req.path = HealthPath /\ done[2].req.path = HealthPath
  /\ ConnectivityFailed(done[1]) /\ ~QueryCalled(done[1])
  /\ Statuses(done[1]) = << DegradedEntry >>
  /\ ~ConnectivityFailed(done[2]) /\ QueryFailed(done[2])
  /\ Statuses(done[2]) = << DegradedEntry >>

(***************************************************************************)
(* C12: when the connectivity test succeeds and the recent-outages query   *)
(* returns an empty list, Health answers with exactly two entries,         *)
(* database then user_outage_reports, both healthy and both without        *)
(* metadata.                                                               *)
(***************************************************************************)
C12_NoOutagesIsHealthy ==
  \A e \in HealthDone :
    QueryAnswered(e) /\ QueryRows(e) = << >> =>
      Statuses(e) =
        << [name |-> "database", description |-> "postgres backend",
            healthy |-> TRUE, metadata |-> << >>],
           [name |-> "user_outage_reports",
            description |-> "outage reports directly from users",
            healthy |-> TRUE, metadata |-> << >>] >>

\* a Health that found no recent outage although the table holds an outage
\* (silenced, or received 48 hours ago or earlier)
C12_Witness ==
  /\ \E e \in HealthDone :
       /\ QueryAnswered(e)
       /\ QueryRows(e) = << >>
       /\ Len(Statuses(e)) = 2
       /\ Statuses(e)[2].healthy
  /\ \E k \in DOMAIN store : store[k].kind = s_outage

(***************************************************************************)
(* C13: when the connectivity test succeeds and the recent-outages query   *)
(* returns N > 0 records, Health answers with the database entry healthy   *)
(* and the user_outage_reports entry unhealthy, whose metadata lists       *)
(* exactly N outages, the i-th carrying the identifier, the message and    *)
(* the received timestamp of the i-th record returned.                     *)
(***************************************************************************)
\* the message of a record as a JSON member: omitted when the record has none
MessageOf(rep) == IF revision = "api.go" THEN << rep.Message >> ELSE rep.Message

C13_OutagesAreListed ==
  \A e \in HealthDone :
    QueryAnswered(e) /\ Len(QueryRows(e)) > 0 =>
      LET rows == QueryRows(e)
          st == Statuses(e)
      IN  /\ Len(st) = 2
          /\ st[1] = [name |-> "database", description |-> "postgres backend",
                      healthy |-> TRUE, metadata |-> << >>]
          /\ st[2].name = "user_outage_reports"
          /\ ~st[2].healthy
          /\ Len(st[2].metadata) = 1
          /\ LET outages == st[2].metadata[1].outages
             IN  /\ Len(outages) = Len(rows)
                 /\ \A k \in 1..Len(rows) :
                      /\ outages[k].id = rows[k].ID
                      /\ outages[k].message = MessageOf(rows[k])
                      /\ outages[k].received_at = rows[k].ReceivedAt

\* two outages received at different hours, returned and listed newest first
C13_Witness ==
  \E e \in HealthDone :
    /\ QueryAnswered(e)
    /\ Len(QueryRows(e)) = 2
    /\ QueryRows(e)[1].ID = 2 /\ QueryRows(e)[2].ID = 1
    /\ QueryRows(e)[1].ReceivedAt > QueryRows(e)[2].ReceivedAt
    /\ Len(Statuses(e)[2].metadata[1].outages) = 2
    /\ Statuses(e)[2].metadata[1].outages[1].id = 2
    /\ Statuses(e)[2].metadata[1].outages[2].id = 1

(***************************************************************************)
(* C14: for every request method and every outcome of the calls to the     *)
(* collaborator, Health writes exactly one response, its status is 200,    *)
(* and its statuses list is not empty and starts with the entry named      *)
(* database.                                                               *)
(***************************************************************************)
C14_HealthIsAlways200 ==
  \A e \in HealthDone :
    /\ e.resp.code = 200
    /\ Len(e.resp.body) = 1
    /\ Len(Statuses(e)) >= 1
    /\ Statuses(e)[1].name = "database"

\* a POST whose connectivity test (src/api/api.go) or query (part_002)
\* failed, next to a GET that listed an outage
C14_Witness ==
  /\ Len(done) = 2
  /\ done[1].req.path = HealthPath /\ done[2].req.path = HealthPath
  /\ done[1].req.method = "POST"
  /\ ConnectivityFailed(done[1]) \/ QueryFailed(done[1])
  /\ done[1].resp.code = 200
  /\ done[2].req.method = "GET"
  /\ QueryAnswered(done[2]) /\ Len(QueryRows(done[2])) > 0
  /\ done[2].resp.code = 200

(***************************************************************************)
(* C15: every record handed to the persistence collaborator has a kind     *)
(* that is exactly outage, comment or service_condition, and each of       *)
(* value, message and email is either absent or non-empty and valid        *)
(* (value one of positive, negative, neutral; email of the accepted        *)
(* shape); every row of the table is such a record.                        *)
(***************************************************************************)
\* an optional field that is absent, or present and not empty
AbsentOrNonEmpty(p) == p = Nil \/ p[1] # Empty

ValidValue(p) ==
  AbsentOrNonEmpty(p) /\ (p # Nil => p[1] \in { s_positive, s_negative, s_neutral })

ValidEmail(p) == AbsentOrNonEmpty(p) /\ (p # Nil => EmailShape(p[1]))

C15_RecordsAreValid ==
  /\ Handled /\ SaveCalled =>
       LET fb == ex.saves[1].fb
       IN  /\ fb.Kind \in { s_outage, s_comment, s_service_condition }
           /\ ValidValue(StoredValue(fb))
           /\ AbsentOrNonEmpty(StoredMessage(fb))
           /\ ValidEmail(StoredEmail(fb))
  /\ \A k \in DOMAIN store :
       /\ store[k].kind \in { s_outage, s_comment, s_service_condition }
       /\ ValidValue(store[k].value)
       /\ AbsentOrNonEmpty(store[k].message)
       /\ ValidEmail(store[k].email)

\* src/api/api.go: the kind outAGE is handed to the collaborator as sent
C15_Failing ==
  /\ Handled
  /\ revision = "api.go"
  /\ ex.req.body = Object(Str(s_outAGE), Absent, Str(s_my_message), Absent)
  /\ SaveCalled
  /\ ex.saves[1].fb.Kind = s_outAGE
  /\ ex.saves[1].fb.Kind \notin { s_outage, s_comment, s_service_condition }

(***************************************************************************)
(* Vocabulary of the steps: the exchange a step completes.                 *)
(***************************************************************************)
Completes == Len(done') = Len(done) + 1

\* the exchange completed by the step
last == done'[Len(done')]

RejectionCodes == { 405, 401, 400 }

(***************************************************************************)
(* C16: a SaveFeedback request calls save exactly once when it passes the  *)
(* validation and not at all when it is answered 405, 401 or 400; a        *)
(* rejected request and a failed save leave the table as it was and the    *)
(* save is not tried again; Health never calls save; a handler changes     *)
(* the table only by appending the one row of a successful save.           *)
(***************************************************************************)
C16_Step ==
  /\ Completes /\ last.req.path = FeedbackPath =>
       /\ Len(last.saves) = IF last.resp.code \in RejectionCodes THEN 0 ELSE 1
       /\ last.resp.code \in RejectionCodes => store' = store
       /\ last.saves # << >> /\ last.saves[1].err # NoError =>
            last.resp.code = 500 /\ store' = store
       /\ last.saves # << >> /\ last.saves[1].err = NoError =>
            /\ last.resp.code = 200
            /\ Len(store') = Len(store) + 1
            /\ SubSeq(store', 1, Len(store)) = store
  /\ Completes /\ last.req.path = HealthPath =>
       last.saves = << >> /\ store' = store
  /\ ~Completes /\ (inflight' # inflight \/ done' # done) => store' = store

C16_SaveOnceOrNever == [][C16_Step]_vars

\* a rejected submission and a failed save handled, the table still empty,
\* followed by a Health that saved nothing
C16_Witness ==
  /\ Len(done) = 2
  /\ done[1].req.path = FeedbackPath
  /\ Len(done[1].saves) = 1
  /\ done[1].saves[1].err # NoError
  /\ done[1].resp.code = 500
  /\ done[2].req.path = HealthPath
  /\ done[2].saves = << >>
  /\ store = << >>

(***************************************************************************)
(* C17: requests handled at the same time do not interfere: under every    *)
(* interleaving, the response of a request and the record it hands to      *)
(* save are determined by its own method, headers and body and by what     *)
(* the collaborator returned to it; two exchanges that agree on these      *)
(* agree on the response, on the record and on what is logged, whatever    *)
(* was in flight or handled before.                                        *)
(***************************************************************************)
\* what the collaborator returned to the exchange, call by call
Returned(e) ==
  << [k \in DOMAIN e.saves |-> e.saves[k].err],
     [k \in DOMAIN e.calls |-> << e.calls[k].op, e.calls[k].rows, e.calls[k].err >>] >>

Listed(e) ==
  IF Statuses(e)[2].metadata = << >> THEN {}
  ELSE { o.id : o \in Range(Statuses(e)[2].metadata[1].outages) }

\* the rows that are outages in any letter case, unsilenced and in the window
RecentOutages(rows, at) ==
  { rows[k].id : k \in { k \in DOMAIN rows :
                           /\ EqualFold(rows[k].kind, s_outage)
                           /\ ~rows[k].silenced
                           /\ rows[k].received_moment > at - 48 } }

C18_Step ==
  /\ Completes /\ last.req.path = HealthPath /\ QueryAnswered(last) =>
       /\ Listed(last) = RecentOutages(store, now)
       /\ Statuses(last)[2].healthy <=> RecentOutages(store, now) = {}
       /\ Len(QueryRows(last)) = Cardinality(Listed(last))
  /\ Completes /\ last.req.path = FeedbackPath
       /\ last.saves # << >> /\ last.saves[1].err = NoError =>
       LET row == store'[Len(store')]
       IN  /\ Len(store') = Len(store) + 1
           /\ row.kind = ToLower(Sent(last.req.body.kind))
           /\ row.received_moment = now
           /\ ~row.silenced
           /\ \A k \in DOMAIN store : store[k].id # row.id

====
